---------------------------- MODULE Spec2Model ----------------------------
(***************************************************************************)
(* A model of the in-memory HNSW index of lib/src/idx/trees/hnsw.rs and of *)
(* the vector value and distance kernel of lib/src/idx/trees/vector.rs.    *)
(*                                                                         *)
(* Five specifications share the module:                                   *)
(*   Spec     the index facade HnswIndex over the engine Hnsw: inserts     *)
(*            and searches on one index;                                   *)
(*   VecSpec  the vector kernel: equality, hashing and the eight distance  *)
(*            selectors applied to pairs of TreeVector values;             *)
(*   I16Spec  the Manhattan kernel on i16 vectors up to i16's extremes;    *)
(*   LockSpec the engine's insert and knn_search as tasks that take and    *)
(*            release the layers' RwLocks step by step;                    *)
(*   QuietSpec the same tasks, one call at a time, each running task       *)
(*            polled until it returns (weak fairness on its steps).        *)
(***************************************************************************)
EXTENDS Integers, Sequences, FiniteSets, TLC

VARIABLES
    dist,         \* Hnsw.dist: the distance selector fixed by Hnsw::new
    layers,       \* Hnsw.layers: sequence of Layer, each ElementId -> Vec<ElementId>
    enter_point,  \* Hnsw.enter_point: {} is None, {id} is Some(id)
    elements,     \* Hnsw.elements: Vec<SharedVector>, elements[id + 1] is id's vector
    d,            \* HnswIndex.d: HashMap<SharedVector, Docs>
    hist,         \* ghost: one record per completed insert (vector, doc, level, id)
    call,         \* the last call made on the index and its arguments
    result,       \* what the last call returned
    panic,        \* "none", or the panic that aborted the last insert or search
    va,           \* vector kernel: first operand
    vb,           \* vector kernel: second operand
    vout,         \* vector kernel: outcome of the last kernel operation
    locks,        \* the RwLock of each layer: [r, w], the tasks holding a read / the write guard
    procs         \* the tasks running Hnsw::insert and Hnsw::knn_search step by step

hvars == <<dist, layers, enter_point, elements, d, hist, call, result, panic>>
vvars == <<va, vb, vout>>
lvars == <<locks, procs>>
vars == <<dist, layers, enter_point, elements, d, hist, call, result, panic, va, vb, vout, locks, procs>>

---------------------------------------------------------------------------
(* Bounds of the model.                                                    *)

MaxElems == 3      \* inserts per index
MaxCoord == 2      \* indexed vectors are the 1-dimensional I16 vectors <<0>> .. <<MaxCoord>>
MaxLevel == 1      \* largest level get_random_level draws
MaxK == 2          \* largest k of a search
MaxEf == 3         \* largest ef of a search
M == 2             \* const generic M: degree bound on layers >= 1
M0 == 1            \* const generic M0: degree bound on layer 0
EFC == 2           \* const generic EFC: beam width during construction
MaxVecLen == 2     \* kernel: longest vector
MaxMag == 1        \* kernel: float elements are +-0.0 .. +-MaxMag and NaN
MaxInt == 1        \* kernel: integer elements are -MaxInt .. MaxInt
MaxOrder == 2      \* kernel: Minkowski orders 1 .. MaxOrder
NumSearchers == 1  \* tasks: searching tasks next to the inserting one

---------------------------------------------------------------------------
(* Generic helpers.                                                        *)

Max2(x, y) == IF x >= y THEN x ELSE y

Min2(x, y) == IF x <= y THEN x ELSE y

Abs(x) == IF x < 0 THEN -x ELSE x

RECURSIVE Pow(_, _)
Pow(b, e) == IF e = 0 THEN 1 ELSE b * Pow(b, e - 1)

RECURSIVE SeqSum(_)
SeqSum(s) == IF s = <<>> THEN 0 ELSE Head(s) + SeqSum(Tail(s))

Range(s) == {s[i] : i \in DOMAIN s}

\* All sequences over S of length 0 .. n.
SeqsUpTo(S, n) == UNION {[1..k -> S] : k \in 0..n}

---------------------------------------------------------------------------
(* TreeVector (vector.rs).  A vector is [kind, v]: the enum variant and    *)
(* its Vec.  An integer element is an integer.  A float element is         *)
(* [neg, nan, mag]: sign bit, NaN flag and an integer magnitude, so that   *)
(* +0.0 and -0.0 are two values, as they are two bit patterns.             *)

Kinds == {"F64", "F32", "I64", "I32", "I16"}

FloatKinds == {"F64", "F32"}

NaN == [neg |-> FALSE, nan |-> TRUE, mag |-> 0]

FloatVals == {[neg |-> s, nan |-> FALSE, mag |-> m] : s \in BOOLEAN, m \in 0..MaxMag} \cup {NaN}

IntVals == (0 - MaxInt)..MaxInt

ElemVals(k) == IF k \in FloatKinds THEN FloatVals ELSE IntVals

TreeVector(k, s) == [kind |-> k, v |-> s]

VectorsOf(k) == {TreeVector(k, s) : s \in SeqsUpTo(ElemVals(k), MaxVecLen)}

\* The discriminant each Hash arm feeds first: 0.hash(state) .. 4.hash(state).
KindTag(k) ==
    CASE k = "F64" -> 0
      [] k = "F32" -> 1
      [] k = "I64" -> 2
      [] k = "I32" -> 3
      [] k = "I16" -> 4

\* What a Hasher is fed is modelled as 16-bit words, most significant first.
\* An integer x with |x| < 2^15 written in two's complement over n words.
IntWords(x, n) == [i \in 1..n |-> IF i = n THEN x % 65536 ELSE IF x < 0 THEN 65535 ELSE 0]

FloorLog2(m) == CHOOSE e \in 0..15 : Pow(2, e) <= m /\ m < Pow(2, e + 1)

\* f64::to_bits: sign(1) exponent(11, bias 1023) fraction(52); the canonical
\* quiet NaN is 0x7FF8_0000_0000_0000.  Magnitudes below 32 have a fraction
\* that fits the top word.
f64_to_bits(x) ==
    LET sign == IF x.neg THEN 32768 ELSE 0
        e == FloorLog2(x.mag)
        top == IF x.nan THEN 32760
               ELSE IF x.mag = 0 THEN 0
               ELSE (1023 + e) * 16 + ((x.mag - Pow(2, e)) * 16) \div Pow(2, e)
    IN  <<sign + top, 0, 0, 0>>

\* f32::to_bits: sign(1) exponent(8, bias 127) fraction(23); NaN is 0x7FC0_0000.
f32_to_bits(x) ==
    LET sign == IF x.neg THEN 32768 ELSE 0
        e == FloorLog2(x.mag)
        top == IF x.nan THEN 32704
               ELSE IF x.mag = 0 THEN 0
               ELSE (127 + e) * 128 + ((x.mag - Pow(2, e)) * 128) \div Pow(2, e)
    IN  <<sign + top, 0>>

\* The write each Hash arm makes for one element.
hash_item(k, x) ==
    CASE k = "F64" -> f64_to_bits(x)
      [] k = "F32" -> f32_to_bits(x)
      [] k = "I64" -> IntWords(x, 4)
      [] k = "I32" -> IntWords(x, 2)
      [] k = "I16" -> IntWords(x, 1)

\* impl Hash for TreeVector: the sequence of writes fed to the Hasher.  Two
\* vectors hash alike exactly when they feed the same writes (a Hasher is a
\* function of what it is fed; distinct feeds are taken to hash apart).
hash(a) == <<IntWords(KindTag(a.kind), 2)>> \o [i \in 1..Len(a.v) |-> hash_item(a.kind, a.v[i])]

\* T's == on one element: IEEE-754 for floats (NaN equals nothing, +0.0 == -0.0).
elem_eq(k, x, y) ==
    IF k \in FloatKinds
    THEN ~x.nan /\ ~y.nan /\ x.mag = y.mag /\ (x.mag = 0 \/ x.neg = y.neg)
    ELSE x = y

\* Vec<T> == Vec<T>: same length and elementwise ==.
vec_eq(k, s, t) == Len(s) = Len(t) /\ \A i \in 1..Len(s) : elem_eq(k, s[i], t[i])

\* impl PartialEq for TreeVector.
eq(a, b) == IF a.kind = b.kind THEN vec_eq(a.kind, a.v, b.v) ELSE FALSE

---------------------------------------------------------------------------
(* The distance kernel (vector.rs).  An f64 computed by the kernel is a    *)
(* record [t, p, n, d] read in exact arithmetic:                           *)
(*   t = "num"   the value (n / d)^(1/p), n >= 0, d > 0, p >= 1;           *)
(*   t = "cosd"  the value 1 - n / sqrt(d);                                *)
(*   t = "corr"  the value n * sqrt(p) / sqrt(d);                          *)
(*   t = "min"   f64::MIN;   t = "inf"  +infinity;   t = "nan"  NaN.       *)
(* Rounding is not modelled: sums, products and roots are exact.           *)

FNum(p, n, dd) == [t |-> "num", p |-> p, n |-> n, d |-> dd]

FInt(n) == FNum(1, n, 1)

FNaN == [t |-> "nan", p |-> 1, n |-> 0, d |-> 1]

FMin == [t |-> "min", p |-> 1, n |-> 0, d |-> 1]

FInf == [t |-> "inf", p |-> 1, n |-> 0, d |-> 1]

Sign(x) == IF x > 0 THEN 1 ELSE IF x < 0 THEN 0 - 1 ELSE 0

\* f64 == on two kernel results of one selector: NaN equals nothing.
f64_eq(x, y) ==
    CASE x.t = "nan" \/ y.t = "nan" -> FALSE
      [] x.t = "num" /\ y.t = "num" -> Pow(x.n, y.p) * Pow(y.d, x.p) = Pow(y.n, x.p) * Pow(x.d, y.p)
      [] x.t = "cosd" /\ y.t = "cosd" -> Sign(x.n) = Sign(y.n) /\ x.n * x.n * y.d = y.n * y.n * x.d
      [] x.t = "corr" /\ y.t = "corr" -> Sign(x.n) = Sign(y.n) /\ x.n * x.n * x.p * y.d = y.n * y.n * y.p * x.d
      [] OTHER -> x.t = y.t

\* f64 < on two "num" results (the distances the index orders).
f64_lt(x, y) == Pow(x.n, y.p) * Pow(y.d, x.p) < Pow(y.n, x.p) * Pow(x.d, y.p)

\* ToFloat on one element: a scalar [nan, n].
to_float(k, x) ==
    IF k \in FloatKinds
    THEN [nan |-> x.nan, n |-> IF x.neg THEN 0 - x.mag ELSE x.mag]
    ELSE [nan |-> FALSE, n |-> x]

\* The positions a.iter().zip(b.iter()) visits.
Zip(a, b) == 1..Min2(Len(a), Len(b))

\* a.to_float() - b.to_float() on position i.
FDiff(k, a, b, i) ==
    LET x == to_float(k, a[i])
        y == to_float(k, b[i])
    IN  [nan |-> x.nan \/ y.nan, n |-> x.n - y.n]

AnyNaN(k, a) == \E i \in 1..Len(a) : to_float(k, a[i]).nan

RECURSIVE SumOver(_, _)
\* The sum of f[i] over the finite set S of positions.
SumOver(f, S) ==
    IF S = {} THEN 0
    ELSE LET i == CHOOSE j \in S : TRUE IN f[i] + SumOver(f, S \ {i})

SetMax(S) == CHOOSE x \in S : \A y \in S : y <= x

\* fold(f64::MIN, f64::max) over |a_i - b_i|: f64::max skips a NaN operand.
chebyshev(k, a, b) ==
    LET terms == {Abs(FDiff(k, a, b, i).n) : i \in {j \in Zip(a, b) : ~FDiff(k, a, b, j).nan}}
    IN  IF terms = {} THEN FMin ELSE FInt(SetMax(terms))

chebyshev_distance(a, b) == IF a.kind = b.kind THEN chebyshev(a.kind, a.v, b.v) ELSE FNaN

euclidean(k, a, b) ==
    IF \E i \in Zip(a, b) : FDiff(k, a, b, i).nan THEN FNaN
    ELSE FNum(2, SumOver([i \in Zip(a, b) |-> FDiff(k, a, b, i).n * FDiff(k, a, b, i).n], Zip(a, b)), 1)

euclidean_distance(a, b) == IF a.kind = b.kind THEN euclidean(a.kind, a.v, b.v) ELSE FInf

\* filter(a != b).count(): T's != is the negation of ==.
hamming(k, a, b) == FInt(Cardinality({i \in Zip(a, b) : ~elem_eq(k, a[i], b[i])}))

hamming_distance(a, b) == IF a.kind = b.kind THEN hamming(a.kind, a.v, b.v) ELSE FNaN

\* intersection_size / union_size of two sets of keys; 0.0 / 0.0 is NaN.
jaccard_ratio(A, B) ==
    IF Cardinality(A \cup B) = 0 THEN FNaN
    ELSE FNum(1, Cardinality(A \cap B), Cardinality(A \cup B))

jaccard_f64(a, b) == jaccard_ratio({f64_to_bits(a[i]) : i \in 1..Len(a)}, {f64_to_bits(b[i]) : i \in 1..Len(b)})

jaccard_f32(a, b) == jaccard_ratio({f32_to_bits(a[i]) : i \in 1..Len(a)}, {f32_to_bits(b[i]) : i \in 1..Len(b)})

jaccard_integers(a, b) == jaccard_ratio(Range(a), Range(b))

jaccard_similarity(a, b) ==
    CASE a.kind # b.kind -> FNaN
      [] a.kind = "F64" -> jaccard_f64(a.v, b.v)
      [] a.kind = "F32" -> jaccard_f32(a.v, b.v)
      [] OTHER -> jaccard_integers(a.v, b.v)

\* i16::MAX and i16::MIN.
I16_MAX == 32767

I16_MIN == 0 - I16_MAX - 1

\* T's `-` on two integer elements: [ovf, n].  For i16 a difference outside
\* i16 overflows: the build with overflow checks panics there ('attempt to
\* subtract with overflow'), the build without them wraps modulo 2^16 to n.
\* The i32 and i64 elements of the model lie in -MaxInt..MaxInt, where the
\* subtraction is exact.
T_sub(k, x, y) ==
    LET r == x - y
    IN  IF k = "I16" /\ (r < I16_MIN \/ r > I16_MAX)
        THEN [ovf |-> TRUE, n |-> ((r - I16_MIN) % (2 * (I16_MAX + 1))) + I16_MIN]
        ELSE [ovf |-> FALSE, n |-> r]

\* (a - b) is T's subtraction, then to_float().abs(), summed.  For floats the
\* subtraction is the float one.  For integers a result with t = "ovf" says
\* that a subtraction overflowed: the call panics when overflow checks are
\* on, and returns n, the sum over the wrapped differences, when they are off.
manhattan(k, a, b) ==
    IF k \in FloatKinds
    THEN IF \E i \in Zip(a, b) : FDiff(k, a, b, i).nan THEN FNaN
         ELSE FInt(SumOver([i \in Zip(a, b) |-> Abs(FDiff(k, a, b, i).n)], Zip(a, b)))
    ELSE LET n == SumOver([i \in Zip(a, b) |-> Abs(T_sub(k, a[i], b[i]).n)], Zip(a, b))
         IN  IF \E i \in Zip(a, b) : T_sub(k, a[i], b[i]).ovf
             THEN [t |-> "ovf", p |-> 1, n |-> n, d |-> 1]
             ELSE FInt(n)

manhattan_distance(a, b) == IF a.kind = b.kind THEN manhattan(a.kind, a.v, b.v) ELSE FNaN

\* sum(|a_i - b_i|.powf(order)).powf(1.0 / order), order a positive integer.
minkowski(k, a, b, order) ==
    IF \E i \in Zip(a, b) : FDiff(k, a, b, i).nan THEN FNaN
    ELSE FNum(order, SumOver([i \in Zip(a, b) |-> Pow(Abs(FDiff(k, a, b, i).n), order)], Zip(a, b)), 1)

minkowski_distance(a, b, order) == IF a.kind = b.kind THEN minkowski(a.kind, a.v, b.v, order) ELSE FNaN

\* The square of magnitude(v): the sum of the squares of all elements.
SqMagnitude(k, a) == SumOver([i \in 1..Len(a) |-> to_float(k, a[i]).n * to_float(k, a[i]).n], 1..Len(a))

\* 1 - dot(normalize(a), normalize(b)), the dot clamped to [-1, 1].  A zero
\* magnitude normalizes to the zero vector; a NaN element makes the magnitude
\* NaN and with it every normalized element.
cosine(k, a, b) ==
    CASE Zip(a, b) = {} -> [t |-> "cosd", p |-> 1, n |-> 0, d |-> 1]
      [] AnyNaN(k, a) \/ AnyNaN(k, b) -> FNaN
      [] SqMagnitude(k, a) = 0 \/ SqMagnitude(k, b) = 0 -> [t |-> "cosd", p |-> 1, n |-> 0, d |-> 1]
      [] OTHER ->
           [t |-> "cosd", p |-> 1,
            n |-> SumOver([i \in Zip(a, b) |-> to_float(k, a[i]).n * to_float(k, b[i]).n], Zip(a, b)),
            d |-> SqMagnitude(k, a) * SqMagnitude(k, b)]

cosine_distance(a, b) == IF a.kind = b.kind THEN cosine(a.kind, a.v, b.v) ELSE FNaN

\* Len(a) * (a_i - mean(a)): the deviation of position i, scaled to an integer.
Dev(k, a, i) == Len(a) * to_float(k, a[i]).n - SumOver([j \in 1..Len(a) |-> to_float(k, a[j]).n], 1..Len(a))

\* covar / (std_dev1 * std_dev2) with mean = sum / len, covar = sum of the
\* products of deviations over the zipped positions / a.len(), and
\* std_dev = sqrt(sum of squared deviations / len).  An empty operand has a NaN
\* mean; a constant one has a zero deviation, and 0.0 / 0.0 is NaN.
pearson(k, a, b) ==
    LET sa == SumOver([i \in 1..Len(a) |-> Dev(k, a, i) * Dev(k, a, i)], 1..Len(a))
        sb == SumOver([i \in 1..Len(b) |-> Dev(k, b, i) * Dev(k, b, i)], 1..Len(b))
    IN  CASE Len(a) = 0 \/ Len(b) = 0 -> FNaN
          [] AnyNaN(k, a) \/ AnyNaN(k, b) -> FNaN
          [] sa = 0 \/ sb = 0 -> FNaN
          [] OTHER ->
               [t |-> "corr", p |-> Len(b),
                n |-> SumOver([i \in Zip(a, b) |-> Dev(k, a, i) * Dev(k, b, i)], Zip(a, b)),
                d |-> Len(a) * sa * sb]

pearson_similarity(a, b) == IF a.kind = b.kind THEN pearson(a.kind, a.v, b.v) ELSE FNaN

\* A Distance selector: its variant and, for Minkowski, its order.
Selector(name, order) == [name |-> name, order |-> order]

Selectors ==
    {Selector(s, 0) : s \in {"Chebyshev", "Cosine", "Euclidean", "Hamming", "Jaccard", "Manhattan", "Pearson"}}
    \cup {Selector("Minkowski", o) : o \in 1..MaxOrder}

\* Distance::dist.
Distance_dist(self, a, b) ==
    CASE self.name = "Chebyshev" -> chebyshev_distance(a, b)
      [] self.name = "Cosine" -> cosine_distance(a, b)
      [] self.name = "Euclidean" -> euclidean_distance(a, b)
      [] self.name = "Hamming" -> hamming_distance(a, b)
      [] self.name = "Jaccard" -> jaccard_similarity(a, b)
      [] self.name = "Manhattan" -> manhattan_distance(a, b)
      [] self.name = "Minkowski" -> minkowski_distance(a, b, self.order)
      [] self.name = "Pearson" -> pearson_similarity(a, b)

---------------------------------------------------------------------------
(* The kernel as a state machine: two operands, and the operations applied *)
(* to them.                                                                *)

NoOut == [op |-> "new"]

VecInit ==
    /\ \E ka \in Kinds, kb \in Kinds : va \in VectorsOf(ka) /\ vb \in VectorsOf(kb)
    /\ vout = NoOut

\* va == vb, and both hashed.
VecCompare ==
    /\ vout.op = "new"
    /\ vout' = [op |-> "cmp", eq |-> eq(va, vb), ha |-> hash(va), hb |-> hash(vb)]
    /\ UNCHANGED <<va, vb>>

\* self.dist(va, vb), self.dist(vb, va) and self.dist(va, va) for one selector.
VecDist(self) ==
    /\ vout.op = "new"
    /\ vout' = [op |-> "dist", sel |-> self,
                ab |-> Distance_dist(self, va, vb),
                ba |-> Distance_dist(self, vb, va),
                aa |-> Distance_dist(self, va, va)]
    /\ UNCHANGED <<va, vb>>

\* The i16 elements of the Manhattan runs: the small ones and the two extremes.
I16Vals == IntVals \cup {I16_MIN, I16_MAX}

I16Init ==
    /\ va \in {TreeVector("I16", s) : s \in SeqsUpTo(I16Vals, MaxVecLen)}
    /\ vb \in {TreeVector("I16", s) : s \in SeqsUpTo(I16Vals, MaxVecLen)}
    /\ vout = NoOut

\* Distance::Manhattan.dist(va, vb) in a build with (checks) or without
\* overflow checks: whether it panicked, and the f64 it returned if not.
I16Manhattan(checks) ==
    /\ vout.op = "new"
    /\ LET r == Distance_dist(Selector("Manhattan", 0), va, vb)
       IN  vout' = [op |-> "manhattan", checks |-> checks,
                    raised |-> checks /\ r.t = "ovf",
                    value |-> IF r.t = "ovf" /\ ~checks THEN FInt(r.n) ELSE r]
    /\ UNCHANGED <<va, vb>>

---------------------------------------------------------------------------
(* PriorityNode and the ordered beam (BTreeSet<PriorityNode>).  A node is  *)
(* the pair <<distance, id>>, ordered by distance, then id.                *)

PriorityNode(dd, id) == <<dd, id>>

pn_lt(x, y) == f64_lt(x[1], y[1]) \/ (f64_eq(x[1], y[1]) /\ x[2] < y[2])

\* BTreeSet::first / last on a non-empty set.
first(S) == CHOOSE x \in S : \A y \in S \ {x} : pn_lt(x, y)

last(S) == CHOOSE x \in S : \A y \in S \ {x} : pn_lt(y, x)

RECURSIVE into_iter(_)
\* The set in iteration order.
into_iter(S) == IF S = {} THEN <<>> ELSE <<first(S)>> \o into_iter(S \ {first(S)})

\* Iterator::take(k) on a sequence.
take(s, k) == SubSeq(s, 1, Min2(k, Len(s)))

---------------------------------------------------------------------------
(* Hnsw (hnsw.rs).  ElementIds count from 0; layers[lc + 1] is layer lc, a *)
(* function from the ids it holds to their neighbour lists.                *)

HnswVectors == {TreeVector("I16", <<c>>) : c \in 0..MaxCoord}

HnswSelectors == {Selector("Manhattan", 0), Selector("Hamming", 0)}

Elem(id) == elements[id + 1]

\* Layer::new.
Layer_new == <<>>

\* HashMap::insert on a layer.
layer_insert(layer, id, list) == [e \in DOMAIN layer \cup {id} |-> IF e = id THEN list ELSE layer[e]]

\* Hnsw::distance.
distance(v1, v2) == Distance_dist(dist, v1, v2)

\* The body of `if visited.insert(e_id)` admitting a node only when it is
\* closer than f_dist, whatever room w has.
visit_closer_only(q, f_dist, ef, e_id, st) ==
    LET e_dist == distance(Elem(e_id), q)
        w1 == st.w \cup {PriorityNode(e_dist, e_id)}
    IN  IF f64_lt(e_dist, f_dist)
        THEN [candidates |-> st.candidates \cup {PriorityNode(e_dist, e_id)},
              w |-> IF Cardinality(w1) > ef THEN w1 \ {last(w1)} ELSE w1]
        ELSE st

\* One entry e_id of the layer that links to c and was not visited: the body
\* of `if visited.insert(e_id)`, on st = [candidates, w].
visit(q, f_dist, ef, e_id, st) ==
    LET e_dist == distance(Elem(e_id), q)
        w1 == st.w \cup {PriorityNode(e_dist, e_id)}
    IN  IF f64_lt(e_dist, f_dist) \/ Cardinality(st.w) < ef
        THEN [candidates |-> st.candidates \cup {PriorityNode(e_dist, e_id)},
              w |-> IF Cardinality(w1) > ef THEN w1 \ {last(w1)} ELSE w1]
        ELSE st

RECURSIVE expand(_, _, _, _, _)
\* The `for` over the layer's HashMap for one candidate: U are the entries to
\* visit, taken in any order (a HashMap's iteration order is unspecified).
\* The set of possible [candidates, w] after it.
expand(q, f_dist, ef, U, st) ==
    IF U = {} THEN {st}
    ELSE UNION {expand(q, f_dist, ef, U \ {e_id}, visit(q, f_dist, ef, e_id, st)) : e_id \in U}

\* A visited set that forgets what is put into it.
visited_forget(visited, U) == visited

\* visited.insert(e_id) for the entries U of the layer that link to c.
visited_insert(visited, U) == visited \cup U

\* A pop that takes the largest candidate.
pop_largest(candidates) == last(candidates)

\* candidates.pop_first() on a non-empty set: the node it removes.
pop_first(candidates) == first(candidates)

RECURSIVE search_loop(_, _, _, _, _, _)
\* The `while let Some(c) = candidates.pop_first()` loop: the set of possible
\* [w, visited, unexpanded] it ends with, unexpanded the candidates the loop
\* leaves behind when it stops at `break`.
search_loop(layer, q, ef, candidates, w, visited) ==
    IF candidates = {} THEN {[w |-> w, visited |-> visited, unexpanded |-> {}]}
    ELSE LET c == pop_first(candidates)
             rest == candidates \ {c}
             f_dist == IF rest = {} THEN c[1] ELSE last(rest)[1]
             U == {e_id \in DOMAIN layer : c[2] \in Range(layer[e_id]) /\ e_id \notin visited}
         IN  IF f64_lt(f_dist, c[1]) THEN {[w |-> w, visited |-> visited, unexpanded |-> candidates]}
             ELSE UNION {search_loop(layer, q, ef, st.candidates, st.w, visited_insert(visited, U)) :
                             st \in expand(q, f_dist, ef, U, [candidates |-> rest, w |-> w])}

\* Hnsw::search_layer on layer lc of ls, as the set of runs it can make: the
\* beam w a run returns and the ids whose distance to q it computed.
search_layer_run(ls, q, ep_id, ef, lc) ==
    LET ep_pr == PriorityNode(distance(Elem(ep_id), q), ep_id)
    IN  search_loop(ls[lc + 1], q, ef, {ep_pr}, {ep_pr}, {ep_id})

\* Hnsw::search_layer on layer lc of ls: the set of beams it can return.
search_layer(ls, q, ep_id, ef, lc) == {r.w : r \in search_layer_run(ls, q, ep_id, ef, lc)}

RECURSIVE push_until(_, _, _)
\* The loop of select_neighbors_simple over the remaining nodes s.
push_until(s, m_max, neighbors) ==
    IF s = <<>> THEN neighbors
    ELSE LET pushed == Append(neighbors, Head(s)[2])
         IN  IF Len(pushed) = m_max THEN pushed ELSE push_until(Tail(s), m_max, pushed)

\* select_neighbors_simple stopping one node late, at m_max + 1 neighbours.
select_neighbors_simple_late(w, m_max, neighbors) == push_until(into_iter(w), m_max + 1, neighbors)

\* Hnsw::select_neighbors_simple: neighbors after the call.
select_neighbors_simple(w, m_max, neighbors) == push_until(into_iter(w), m_max, neighbors)

\* select_and_shrink_neighbors_simple ranking e's neighbours by their
\* distance to the new node instead of their distance to e.
select_and_shrink_by_new(e_id, new_f_id, new_f, elems, m_max) ==
    LET e == Elem(e_id)
        w == {PriorityNode(distance(e, new_f), new_f_id)}
             \cup {PriorityNode(distance(Elem(elems[i]), new_f), elems[i]) : i \in 1..Len(elems)}
    IN  select_neighbors_simple(w, m_max, <<>>)

\* select_and_shrink_neighbors_simple ranking e itself with its neighbours.
select_and_shrink_with_self(e_id, new_f_id, new_f, elems, m_max) ==
    LET e == Elem(e_id)
        w == {PriorityNode(distance(e, new_f), new_f_id), PriorityNode(distance(e, e), e_id)}
             \cup {PriorityNode(distance(Elem(elems[i]), e), elems[i]) : i \in 1..Len(elems)}
    IN  select_neighbors_simple(w, m_max, <<>>)

\* Hnsw::select_and_shrink_neighbors_simple: the list that replaces elems.
select_and_shrink_neighbors_simple(e_id, new_f_id, new_f, elems, m_max) ==
    LET e == Elem(e_id)
        w == {PriorityNode(distance(e, new_f), new_f_id)}
             \cup {PriorityNode(distance(Elem(elems[i]), e), elems[i]) : i \in 1..Len(elems)}
    IN  select_neighbors_simple(w, m_max, <<>>)


NoPanic == "none"

RECURSIVE connect_oneway(_, _, _, _, _)
\* The connect loop without the back link to a neighbour whose list has room.
connect_oneway(layer, todo, id, q, m_max) ==
    IF todo = <<>> THEN [layer |-> layer, panic |-> NoPanic]
    ELSE LET e_id == Head(todo)
         IN  IF e_id \notin DOMAIN layer
             THEN [layer |-> layer, panic |-> "unreachable: Element"]
             ELSE LET e_conn == layer[e_id]
                      updated == IF Len(e_conn) >= m_max
                                 THEN select_and_shrink_neighbors_simple(e_id, id, q, e_conn, m_max)
                                 ELSE e_conn
                  IN  connect_oneway([layer EXCEPT ![e_id] = updated], Tail(todo), id, q, m_max)

RECURSIVE connect(_, _, _, _, _)
\* `for e_id in neighbors` of insert_element on one layer: [layer, panic].
connect(layer, todo, id, q, m_max) ==
    IF todo = <<>> THEN [layer |-> layer, panic |-> NoPanic]
    ELSE LET e_id == Head(todo)
         IN  IF e_id \notin DOMAIN layer
             THEN [layer |-> layer, panic |-> "unreachable: Element"]
             ELSE LET e_conn == layer[e_id]
                      updated == IF Len(e_conn) >= m_max
                                 THEN select_and_shrink_neighbors_simple(e_id, id, q, e_conn, m_max)
                                 ELSE Append(e_conn, id)
                  IN  connect([layer EXCEPT ![e_id] = updated], Tail(todo), id, q, m_max)

RECURSIVE descend(_, _, _, _, _)
\* First loop of insert_element, from layer lc down to level + 1: the entry
\* points it can end with.
descend(ls, q, ep, lc, level) ==
    IF lc <= level THEN {ep}
    ELSE UNION {descend(ls, q, IF w = {} THEN ep ELSE first(w)[2], lc - 1, level) :
                    w \in search_layer(ls, q, ep, 1, lc)}

RECURSIVE link_layers(_, _, _, _, _)
\* Second loop of insert_element, from layer lc down to 0: the set of
\* possible [layers, panic].
link_layers(ls, q, ep, id, lc) ==
    IF lc < 0 THEN {[layers |-> ls, panic |-> NoPanic]}
    ELSE UNION {
           LET m_max == IF lc = 0 THEN M0 ELSE M
               neighbors == select_neighbors_simple(w, m_max, <<>>)
               c == connect(layer_insert(ls[lc + 1], id, neighbors), neighbors, id, q, m_max)
               ls1 == [ls EXCEPT ![lc + 1] = c.layer]
           IN  IF c.panic # NoPanic THEN {[layers |-> ls1, panic |-> c.panic]}
               ELSE IF w = {} THEN {[layers |-> ls1, panic |-> "unreachable: W is empty"]}
               ELSE link_layers(ls1, q, first(w)[2], id, lc - 1)
           : w \in search_layer(ls, q, ep, EFC, lc)}

RECURSIVE insert_above(_, _, _, _)
\* Third loop of insert_element, layers lc ..= level: [layers, panic].
insert_above(ls, id, lc, level) ==
    IF lc > level THEN [layers |-> ls, panic |-> NoPanic]
    ELSE IF id \in DOMAIN ls[lc + 1]
         THEN [layers |-> ls, panic |-> "unreachable: Already there"]
         ELSE insert_above([ls EXCEPT ![lc + 1] = layer_insert(ls[lc + 1], id, <<>>)], id, lc + 1, level)

\* Hnsw::debug_print_check: whether every assert!(f.len() <= m_max) passes.
debug_print_check(ls) ==
    \A i \in 1..Len(ls) : \A e \in DOMAIN ls[i] : Len(ls[i][e]) <= (IF i - 1 = 0 THEN M0 ELSE M)

\* insert_element with the third loop starting at top_layer_level, a layer
\* the second loop has already put id into.
insert_element_from_top(ls, q, ep, id, level, top_layer_level) ==
    UNION {
      {LET above == insert_above(o.layers, id, top_layer_level, level)
           new_ep == IF level > top_layer_level THEN {id} ELSE enter_point
       IN  IF o.panic # NoPanic
           THEN [layers |-> o.layers, enter_point |-> enter_point, panic |-> o.panic]
           ELSE IF above.panic # NoPanic
           THEN [layers |-> above.layers, enter_point |-> enter_point, panic |-> above.panic]
           ELSE IF ~debug_print_check(above.layers)
           THEN [layers |-> above.layers, enter_point |-> new_ep, panic |-> "assertion failed: f.len() <= m_max"]
           ELSE [layers |-> above.layers, enter_point |-> new_ep, panic |-> NoPanic]
       : o \in link_layers(ls, q, ep1, id, Min2(top_layer_level, level))}
      : ep1 \in descend(ls, q, ep, top_layer_level, level)}

\* Hnsw::insert_element on the layers ls (already extended to level): the set
\* of possible [layers, enter_point, panic].
insert_element(ls, q, ep, id, level, top_layer_level) ==
    UNION {
      {LET above == insert_above(o.layers, id, top_layer_level + 1, level)
           new_ep == IF level > top_layer_level THEN {id} ELSE enter_point
       IN  IF o.panic # NoPanic
           THEN [layers |-> o.layers, enter_point |-> enter_point, panic |-> o.panic]
           ELSE IF above.panic # NoPanic
           THEN [layers |-> above.layers, enter_point |-> enter_point, panic |-> above.panic]
           ELSE IF ~debug_print_check(above.layers)
           THEN [layers |-> above.layers, enter_point |-> new_ep, panic |-> "assertion failed: f.len() <= m_max"]
           ELSE [layers |-> above.layers, enter_point |-> new_ep, panic |-> NoPanic]
       : o \in link_layers(ls, q, ep1, id, Min2(top_layer_level, level))}
      : ep1 \in descend(ls, q, ep, top_layer_level, level)}

RECURSIVE first_layers(_, _, _, _)
\* The loop of insert_first_element over layers lc ..= level.
first_layers(ls, id, lc, level) ==
    IF lc > level THEN ls
    ELSE first_layers([ls EXCEPT ![lc + 1] = layer_insert(ls[lc + 1], id, <<>>)], id, lc + 1, level)

\* insert_first_element starting at layer 1, leaving layer 0 without the node.
insert_first_element_above(ls, id, level) ==
    {[layers |-> first_layers(ls, id, 1, level), enter_point |-> {id}, panic |-> NoPanic]}

\* Hnsw::insert_first_element.
insert_first_element(ls, id, level) ==
    {[layers |-> first_layers(ls, id, 0, level), enter_point |-> {id}, panic |-> NoPanic]}

\* The indices select_and_shrink_neighbors_simple reads elements at, with
\* the new node read from elements as well.
shrink_reads_new(e_id, new_f_id, elems) == {e_id, new_f_id} \cup Range(elems)

\* The indices select_and_shrink_neighbors_simple reads elements at:
\* self.elements[e_id] and self.elements[f_id] for each f_id drained.
shrink_reads(e_id, new_f_id, elems) == {e_id} \cup Range(elems)

RECURSIVE connect_reads(_, _, _, _, _)
\* The indices the connect loop of one layer reads elements at.
connect_reads(layer, todo, id, q, m_max) ==
    IF todo = <<>> \/ Head(todo) \notin DOMAIN layer THEN {}
    ELSE LET e_id == Head(todo)
             e_conn == layer[e_id]
             one == connect(layer, <<e_id>>, id, q, m_max)
         IN  (IF Len(e_conn) >= m_max THEN shrink_reads(e_id, id, e_conn) ELSE {})
             \cup connect_reads(one.layer, Tail(todo), id, q, m_max)

RECURSIVE descend_reads(_, _, _, _, _)
\* First loop of insert_element: the possible [ep, reads], reads the indices
\* its search_layer calls read elements at.
descend_reads(ls, q, ep, lc, level) ==
    IF lc <= level THEN {[ep |-> ep, reads |-> {}]}
    ELSE UNION {{[ep |-> o.ep, reads |-> r.visited \cup o.reads] :
                     o \in descend_reads(ls, q, IF r.w = {} THEN ep ELSE first(r.w)[2], lc - 1, level)}
                : r \in search_layer_run(ls, q, ep, 1, lc)}

RECURSIVE link_reads(_, _, _, _, _)
\* Second loop of insert_element: the possible sets of indices its
\* search_layer and select_and_shrink_neighbors_simple calls read elements at.
link_reads(ls, q, ep, id, lc) ==
    IF lc < 0 THEN {{}}
    ELSE UNION {
           LET m_max == IF lc = 0 THEN M0 ELSE M
               neighbors == select_neighbors_simple(r.w, m_max, <<>>)
               start == layer_insert(ls[lc + 1], id, neighbors)
               c == connect(start, neighbors, id, q, m_max)
               here == r.visited \cup connect_reads(start, neighbors, id, q, m_max)
               ls1 == [ls EXCEPT ![lc + 1] = c.layer]
           IN  IF c.panic # NoPanic \/ r.w = {} THEN {here}
               ELSE {here \cup rest : rest \in link_reads(ls1, q, first(r.w)[2], id, lc - 1)}
           : r \in search_layer_run(ls, q, ep, EFC, lc)}

\* Hnsw::get_random_level: the levels a draw can give, capped by the model.
get_random_level == 0..MaxLevel

\* The layer loop pushing one layer more than the level asks for.
push_layers_extra(ls, level) ==
    IF level + 1 > Len(ls) THEN ls \o [l \in 1..(level + 2 - Len(ls)) |-> Layer_new] ELSE ls

\* The `for l in layers..=level` of Hnsw::insert: new empty layers pushed.
push_layers(ls, level) ==
    IF level + 1 > Len(ls) THEN ls \o [l \in 1..(level + 1 - Len(ls)) |-> Layer_new] ELSE ls

\* Hnsw::insert numbering the elements from 1.
Hnsw_insert_from1(q, level) ==
    LET id == Len(elements) + 1
        nlayers == Len(layers)
        ls == push_layers(layers, level)
        outs == IF enter_point # {}
                THEN insert_element(ls, q, CHOOSE ep \in enter_point : TRUE, id - 1, level, nlayers - 1)
                ELSE insert_first_element(ls, id - 1, level)
    IN  {[layers |-> o.layers, enter_point |-> o.enter_point, panic |-> o.panic, id |-> id,
          elements |-> IF o.panic = NoPanic THEN Append(elements, q) ELSE elements] : o \in outs}

\* Hnsw::insert with the level drawn: the set of possible
\* [layers, enter_point, elements, id, panic].
Hnsw_insert(q, level) ==
    LET id == Len(elements)
        nlayers == Len(layers)
        ls == push_layers(layers, level)
        outs == IF enter_point # {}
                THEN insert_element(ls, q, CHOOSE ep \in enter_point : TRUE, id, level, nlayers - 1)
                ELSE insert_first_element(ls, id, level)
    IN  {[layers |-> o.layers, enter_point |-> o.enter_point, panic |-> o.panic, id |-> id,
          elements |-> IF o.panic = NoPanic THEN Append(elements, q) ELSE elements] : o \in outs}

\* The possible sets of indices one Hnsw::insert(q) drawing level reads
\* elements at.
Hnsw_insert_reads(q, level) ==
    LET id == Len(elements)
        top_layer_level == Len(layers) - 1
        ls == push_layers(layers, level)
    IN  IF enter_point = {} THEN {{}}
        ELSE UNION {{o.reads \cup rest : rest \in link_reads(ls, q, o.ep, id, Min2(top_layer_level, level))}
                    : o \in descend_reads(ls, q, CHOOSE ep \in enter_point : TRUE, top_layer_level, level)}

RECURSIVE knn_descend(_, _, _)
\* The loop of knn_search over layers lc down to 1: the possible [ep, panic].
knn_descend(q, ep, lc) ==
    IF lc < 1 THEN {[ep |-> ep, panic |-> NoPanic]}
    ELSE UNION {IF w = {} THEN {[ep |-> ep, panic |-> "unreachable"]}
                ELSE knn_descend(q, first(w)[2], lc - 1)
                : w \in search_layer(layers, q, ep, 1, lc)}

\* knn_search taking at least one node whatever k is.
knn_search_take1(q, k, ef) ==
    IF enter_point # {}
    THEN UNION {IF o.panic # NoPanic THEN {[nn |-> <<>>, panic |-> o.panic]}
                ELSE {[nn |-> take(into_iter(w), Max2(k, 1)), panic |-> NoPanic] :
                          w \in search_layer(layers, q, o.ep, ef, 0)}
                : o \in knn_descend(q, CHOOSE ep \in enter_point : TRUE, Len(layers) - 1)}
    ELSE {[nn |-> <<>>, panic |-> NoPanic]}

\* Hnsw::knn_search: the set of possible [nn, panic], nn the Vec returned.
knn_search(q, k, ef) ==
    IF enter_point # {}
    THEN UNION {IF o.panic # NoPanic THEN {[nn |-> <<>>, panic |-> o.panic]}
                ELSE {[nn |-> take(into_iter(w), k), panic |-> NoPanic] :
                          w \in search_layer(layers, q, o.ep, ef, 0)}
                : o \in knn_descend(q, CHOOSE ep \in enter_point : TRUE, Len(layers) - 1)}
    ELSE {[nn |-> <<>>, panic |-> NoPanic]}

---------------------------------------------------------------------------
(* HnswIndex (hnsw.rs): the engine plus the map d from vectors to Docs.    *)
(* Docs and KnnResultBuilder live in knn.rs; they are modelled from their  *)
(* description: Docs is a duplicate-free collection of doc ids in the      *)
(* order they were registered, the builder collects (doc, distance) pairs  *)
(* without repeating a doc and the result is its first n pairs.            *)

\* Docs::insert: duplicate inserts are idempotent.
Docs_insert(docs, doc) == IF doc \in Range(docs) THEN docs ELSE Append(docs, doc)

\* The keys of d a HashMap lookup of v matches: same hash and ==.
d_keys(m, v) == {key \in DOMAIN m : hash(key) = hash(v) /\ eq(key, v)}

\* The entry update replacing the Docs of an occupied entry by the new doc.
d_entry_insert_replace(m, o, doc) ==
    IF d_keys(m, o) # {}
    THEN LET key == CHOOSE x \in d_keys(m, o) : TRUE
         IN  [m EXCEPT ![key] = <<doc>>]
    ELSE [key \in DOMAIN m \cup {o} |-> IF key = o THEN <<doc>> ELSE m[key]]

\* self.d.entry(o): Occupied adds doc to the entry's Docs, Vacant inserts
\* Docs::One(doc).
d_entry_insert(m, o, doc) ==
    IF d_keys(m, o) # {}
    THEN LET key == CHOOSE x \in d_keys(m, o) : TRUE
         IN  [m EXCEPT ![key] = Docs_insert(m[key], doc)]
    ELSE [key \in DOMAIN m \cup {o} |-> IF key = o THEN <<doc>> ELSE m[key]]

\* KnnResultBuilder::check_add on the pairs collected so far.
check_add(acc, n, dd) ==
    IF Len(acc) < n THEN TRUE
    ELSE IF acc = <<>> THEN TRUE
    ELSE ~f64_lt(acc[Len(acc)].dist, dd)

RECURSIVE builder_add(_, _, _)
\* KnnResultBuilder::add: the docs not yet collected, at distance dd.
builder_add(acc, dd, docs) ==
    IF docs = <<>> THEN acc
    ELSE builder_add(IF \E i \in 1..Len(acc) : acc[i].doc = Head(docs)
                     THEN acc
                     ELSE Append(acc, [doc |-> Head(docs), dist |-> dd]),
                     dd, Tail(docs))

RECURSIVE builder_fold(_, _, _)
\* `for pn in neighbors` of HnswIndex::search.
builder_fold(neighbors, n, acc) ==
    IF neighbors = <<>> THEN acc
    ELSE LET pn == Head(neighbors)
             keys == d_keys(d, Elem(pn[2]))
         IN  builder_fold(Tail(neighbors), n,
                          IF check_add(acc, n, pn[1]) /\ keys # {}
                          THEN builder_add(acc, pn[1], d[CHOOSE x \in keys : TRUE])
                          ELSE acc)

\* KnnResultBuilder::build: the first n pairs.
build(acc, n) == take(acc, n)

\* HnswIndex::search: the set of possible [nn, docs, panic].
HnswIndex_search(o, n, ef) ==
    {[nn |-> r.nn, panic |-> r.panic,
      docs |-> IF r.panic = NoPanic THEN build(builder_fold(r.nn, n, <<>>), n) ELSE <<>>]
     : r \in knn_search(o, n, ef)}

---------------------------------------------------------------------------
(* Tasks.  Task 0 runs Hnsw::insert, tasks 1 .. NumSearchers run           *)
(* Hnsw::knn_search.  A task is a record: where it is (pc), the arguments  *)
(* and locals of the call it runs, and what it has noted of its run.       *)

Inserter == 0

Searchers == 1..NumSearchers

Procs == {Inserter} \cup Searchers

NoProc ==
    [pc |-> "idle",
     q |-> TreeVector("I16", <<>>), k |-> 0, kef |-> 0,          \* knn_search(q, k, ef) / insert(q)
     id |-> 0, level |-> 0, plan |-> <<>>, neighbors |-> <<>>,   \* insert: id, level, the loop iterations left
     ep |-> 0, ef |-> 0, lc |-> 0,                               \* search_layer(q, ep, ef, lc)
     cand |-> {}, w |-> {}, visited |-> {}, c |-> <<>>, fd |-> <<>>,
     iters |-> 0,                                                \* noted: iterations of the while loop so far
     nn |-> <<>>,                                                \* what knn_search returned
     acq |-> <<>>,                                               \* noted: the locks an insert took, in order
     snap |-> {}, torn |-> FALSE]                                \* noted: the layer as search_layer last saw it

\* No task is running and no layer exists.
NoTasks ==
    /\ locks = <<>>
    /\ procs = [p \in Procs |-> NoProc]

---------------------------------------------------------------------------
(* The index as a state machine.                                           *)

NoCall == [op |-> "new", q |-> TreeVector("I16", <<>>), k |-> 0, ef |-> 0, level |-> 0, doc |-> 0]

NoResult == [id |-> {}, nn |-> <<>>, docs |-> <<>>]

\* The doc id the caller registers the next vector under: every insert
\* brings its own doc id, 1, 2, 3, ...
NextDoc == Len(elements) + 1

\* HnswIndex::new(distance).
HInit ==
    /\ dist \in HnswSelectors
    /\ layers = <<>>
    /\ enter_point = {}
    /\ elements = <<>>
    /\ d = <<>>
    /\ hist = <<>>
    /\ call = NoCall
    /\ result = NoResult
    /\ panic = NoPanic

\* HnswIndex::insert(o, doc) with the level get_random_level draws.
Insert(o, level) ==
    /\ panic = NoPanic
    /\ Len(elements) < MaxElems
    /\ \E r \in Hnsw_insert(o, level) :
         /\ layers' = r.layers
         /\ enter_point' = r.enter_point
         /\ elements' = r.elements
         /\ panic' = r.panic
         /\ d' = IF r.panic = NoPanic THEN d_entry_insert(d, o, NextDoc) ELSE d
         /\ hist' = IF r.panic = NoPanic
                    THEN Append(hist, [q |-> o, doc |-> NextDoc, level |-> level, id |-> r.id])
                    ELSE hist
         /\ result' = IF r.panic = NoPanic THEN [id |-> {r.id}, nn |-> <<>>, docs |-> <<>>] ELSE NoResult
    /\ call' = [op |-> "insert", q |-> o, k |-> 0, ef |-> 0, level |-> level, doc |-> NextDoc]
    /\ UNCHANGED dist

\* HnswIndex::search(o, n, ef).
Search(o, n, ef) ==
    /\ panic = NoPanic
    /\ \E r \in HnswIndex_search(o, n, ef) :
         /\ result' = [id |-> {}, nn |-> r.nn, docs |-> r.docs]
         /\ panic' = r.panic
    /\ call' = [op |-> "search", q |-> o, k |-> n, ef |-> ef, level |-> 0, doc |-> 0]
    /\ UNCHANGED <<dist, layers, enter_point, elements, d, hist>>

Init ==
    /\ HInit
    /\ NoTasks
    /\ va = TreeVector("I16", <<>>)
    /\ vb = TreeVector("I16", <<>>)
    /\ vout = NoOut

Next ==
    \/ \E o \in HnswVectors, level \in get_random_level : Insert(o, level) /\ UNCHANGED <<vvars, lvars>>
    \/ \E o \in HnswVectors, n \in 0..MaxK, ef \in 0..MaxEf : Search(o, n, ef) /\ UNCHANGED <<vvars, lvars>>

Spec == Init /\ [][Next]_vars

VecSpecInit ==
    /\ VecInit
    /\ NoTasks
    /\ dist = Selector("Manhattan", 0)
    /\ layers = <<>>
    /\ enter_point = {}
    /\ elements = <<>>
    /\ d = <<>>
    /\ hist = <<>>
    /\ call = NoCall
    /\ result = NoResult
    /\ panic = NoPanic

VecNext ==
    \/ VecCompare /\ UNCHANGED <<hvars, lvars>>
    \/ \E self \in Selectors : VecDist(self) /\ UNCHANGED <<hvars, lvars>>

VecSpec == VecSpecInit /\ [][VecNext]_vars

I16SpecInit ==
    /\ I16Init
    /\ NoTasks
    /\ dist = Selector("Manhattan", 0)
    /\ layers = <<>>
    /\ enter_point = {}
    /\ elements = <<>>
    /\ d = <<>>
    /\ hist = <<>>
    /\ call = NoCall
    /\ result = NoResult
    /\ panic = NoPanic

I16Next == \E checks \in BOOLEAN : I16Manhattan(checks) /\ UNCHANGED <<hvars, lvars>>

I16Spec == I16SpecInit /\ [][I16Next]_vars

---------------------------------------------------------------------------
(* Properties.                                                             *)

\* The degree bound of layer lc.
MMax(lc) == IF lc = 0 THEN M0 ELSE M

\* The ids of the completed inserts whose drawn level is at least lc.
IdsAtLevel(lc) == {hist[i].id : i \in {j \in 1..Len(hist) : hist[j].level >= lc}}

\* The doc ids a search result lists.
ResultDocs == {result.docs[i].doc : i \in 1..Len(result.docs)}

\* The indexed vectors are pairwise distinct.
DistinctVectors == \A i \in 1..Len(elements) : \A j \in 1..Len(elements) : i # j => elements[i] # elements[j]

\* C1: after any sequence of completed inserts, every neighbour list of layer 0
\* has at most M0 entries and every neighbour list of a layer >= 1 at most M, and
\* the assertion of debug_print_check has not failed.
C1_DegreeBound ==
    /\ panic # "assertion failed: f.len() <= m_max"
    /\ \A i \in 1..Len(layers) : \A e \in DOMAIN layers[i] : Len(layers[i][e]) <= MMax(i - 1)

\* An insert has pruned a full list of layer 0: f lists e, e is full and no
\* longer lists f.
C1_Witness ==
    /\ call.op = "insert"
    /\ panic = NoPanic
    /\ \E e \in DOMAIN layers[1], f \in DOMAIN layers[1] :
         /\ e \in Range(layers[1][f])
         /\ f \notin Range(layers[1][e])
         /\ Len(layers[1][e]) = M0

\* C2: after any sequence of completed inserts, layer lc holds exactly the ids
\* whose drawn level is at least lc: an id e is a key of exactly the layers
\* 0 ..= level(e), so layer 0 holds every id and a key of layer lc > 0 is a key
\* of layer lc - 1.
C2_LayerMembership ==
    panic = NoPanic =>
        /\ \A i \in 1..Len(hist) : hist[i].level < Len(layers)
        /\ \A lc \in 0..(Len(layers) - 1) : DOMAIN layers[lc + 1] = IdsAtLevel(lc)
        /\ Len(layers) >= 1 => DOMAIN layers[1] = 0..(Len(elements) - 1)

\* Inserts of different levels have completed, the higher level after the
\* lower one and the other way round.
C2_Witness ==
    /\ call.op = "insert"
    /\ panic = NoPanic
    /\ \E i \in 1..Len(hist), j \in 1..Len(hist), k \in 1..Len(hist) :
         i < j /\ j < k /\ hist[i].level < hist[j].level /\ hist[k].level < hist[j].level

\* C3: after any sequence of completed inserts on a non-empty index,
\* enter_point is Some(id) with id a key of the top-most layer, and no layer
\* is without a node.
C3_EnterPointTop ==
    (panic = NoPanic /\ elements # <<>>) =>
        /\ Len(layers) >= 1
        /\ enter_point # {}
        /\ enter_point \subseteq DOMAIN layers[Len(layers)]
        /\ \A i \in 1..Len(layers) : DOMAIN layers[i] # {}

\* An insert above the top layer has moved enter_point to a later element.
C3_Witness ==
    /\ call.op = "insert"
    /\ panic = NoPanic
    /\ Len(layers) >= 2
    /\ \E id \in enter_point : id >= 1 /\ hist[id + 1].level > hist[1].level

\* C4: the n-th insert (from 0) returns id n; after N completed inserts
\* elements has N entries and elements[id] is the vector passed to the insert
\* that returned id, also when a vector is inserted several times.
C4_DenseIds ==
    panic = NoPanic =>
        /\ Len(elements) = Len(hist)
        /\ \A i \in 1..Len(hist) : hist[i].id = i - 1 /\ Elem(hist[i].id) = hist[i].q
        /\ call.op = "insert" => result.id = {Len(elements) - 1}

\* The same vector was inserted twice and then another insert completed.
C4_Witness ==
    /\ call.op = "insert"
    /\ panic = NoPanic
    /\ Len(elements) >= 3
    /\ elements[1] = elements[2]
    /\ result.id = {2}

\* C5 (as claimed): a search with any k and ef, ef < k and ef = 0 included, is
\* not rejected and returns exactly min(k, ef, number of indexed vectors)
\* results.
C5_SearchLength ==
    call.op = "search" =>
        /\ panic = NoPanic
        /\ Len(result.nn) = Min2(call.k, Min2(call.ef, Len(elements)))

\* The case C6 is about: a search for an indexed vector, k >= 1, ef at least
\* the collection size, over pairwise distinct vectors.
C6_Case ==
    /\ call.op = "search"
    /\ DistinctVectors
    /\ call.k >= 1
    /\ call.ef >= Len(elements)
    /\ \E i \in 1..Len(hist) : hist[i].q = call.q

\* What C6 promises of that search: the vector's own doc id is in the result
\* and the result has min(collection size, k) entries; the same of the nodes
\* knn_search returned, from which the result is built.
C6_Found ==
    /\ panic = NoPanic
    /\ \A i \in 1..Len(hist) : hist[i].q = call.q => hist[i].doc \in ResultDocs
    /\ Len(result.docs) = Min2(Len(elements), call.k)
    /\ \A i \in 1..Len(hist) : hist[i].q = call.q => hist[i].id \in {result.nn[j][2] : j \in 1..Len(result.nn)}
    /\ Len(result.nn) = Min2(Len(elements), call.k)

C7_EmptySearch ==
    [][(call'.op = "search" /\ (elements = <<>> \/ call'.k = 0) /\ (call' # call \/ result' # result)) =>
          /\ panic' = NoPanic
          /\ result'.nn = <<>>
          /\ result'.docs = <<>>
          /\ UNCHANGED <<dist, layers, enter_point, elements, d>>]_vars

\* A search with k = 0 on an index of several vectors has returned.
C7_Witness ==
    /\ call.op = "search"
    /\ call.k = 0
    /\ call.ef >= 1
    /\ Len(elements) >= 2
    /\ result.docs = <<>>

\* C8: the same vector v inserted twice into an empty index, under doc 1 then
\* doc 2, then searched with k = 2 and ef >= 2: the result lists doc 1 and doc 2
\* once each, both at distance 0, while the engine holds two elements that
\* both resolve to the docs {1, 2}.
C8_DuplicateVector ==
    (/\ call.op = "search"
     /\ Len(elements) = 2
     /\ elements[1] = elements[2]
     /\ call.q = elements[1]
     /\ call.k = 2
     /\ call.ef >= 2) =>
        /\ panic = NoPanic
        /\ Len(result.docs) = 2
        /\ ResultDocs = {1, 2}
        /\ \A i \in 1..Len(result.docs) : f64_eq(result.docs[i].dist, FInt(0))
        /\ {result.nn[i][2] : i \in 1..Len(result.nn)} = {0, 1}
        /\ \A id \in {0, 1} : \A key \in d_keys(d, Elem(id)) : Range(d[key]) = {1, 2}

\* That search has returned.
C8_Witness ==
    /\ call.op = "search"
    /\ Len(elements) = 2
    /\ elements[1] = elements[2]
    /\ call.q = elements[1]
    /\ call.k = 2
    /\ call.ef >= 2
    /\ Len(result.docs) = 2

\* C9 (as claimed): a == b implies hash(a) == hash(b), float vectors that
\* differ in the sign of a zero included, and vectors of different kinds are
\* never equal.
C9_HashEqContract ==
    vout.op = "cmp" =>
        /\ vout.eq => vout.ha = vout.hb
        /\ va.kind # vb.kind => ~vout.eq

\* C10 (as claimed): for every selector and vectors a, b of one kind and
\* length, zero length included, dist(a, b) == dist(b, a), and for Chebyshev,
\* Euclidean, Manhattan and Minkowski dist(a, a) == 0.
C10_SymmetricZeroSelf ==
    (vout.op = "dist" /\ va.kind = vb.kind /\ Len(va.v) = Len(vb.v)) =>
        /\ f64_eq(vout.ab, vout.ba)
        /\ vout.sel.name \in {"Chebyshev", "Euclidean", "Manhattan", "Minkowski"} => f64_eq(vout.aa, FInt(0))

\* The sum over the zipped positions of |a_i - b_i| in unbounded arithmetic.
ExactManhattan(a, b) == SumOver([i \in Zip(a, b) |-> Abs(a[i] - b[i])], Zip(a, b))

\* C11 (as claimed): for two vectors of one integer kind and equal length the
\* Manhattan distance does not raise and equals the sum of |a_i - b_i| taken in
\* unbounded arithmetic, also when a difference does not fit the element type.
C11_ManhattanExact ==
    (vout.op = "manhattan" /\ Len(va.v) = Len(vb.v)) =>
        /\ ~vout.raised
        /\ f64_eq(vout.value, FInt(ExactManhattan(va.v, vb.v)))

\* The panics of the unreachable!() branches of insert_element and knn_search.
UnreachablePanics == {"unreachable: Element", "unreachable: W is empty", "unreachable: Already there", "unreachable"}

\* C12: no sequence of inserts and searches executes an unreachable!() branch:
\* the beam of search_layer is never empty, every selected neighbour is a key
\* of the layer being updated and no id is inserted into a layer that has it.
C12_NoUnreachable == panic \notin UnreachablePanics

\* A search over two layers has returned nodes after three inserts, one of
\* them below the top layer and a later one above it.
C12_Witness ==
    /\ call.op = "search"
    /\ panic = NoPanic
    /\ Len(layers) = 2
    /\ Len(hist) = 3
    /\ hist[1].level = 0 /\ hist[2].level = 0 /\ hist[3].level = 1
    /\ Len(result.nn) >= 1

\* C17: after any sequence of completed inserts no neighbour list holds its
\* own node, none holds an id twice, and every id in a list of layer L is a
\* key of layer L.
C17_SimpleGraph ==
    panic = NoPanic =>
        \A i \in 1..Len(layers) : \A e \in DOMAIN layers[i] :
            /\ e \notin Range(layers[i][e])
            /\ Cardinality(Range(layers[i][e])) = Len(layers[i][e])
            /\ Range(layers[i][e]) \subseteq DOMAIN layers[i]

\* Three inserts have completed, a list of layer 1 holds two ids and a list
\* of layer 0 was pruned.
C17_Witness ==
    /\ call.op = "insert"
    /\ panic = NoPanic
    /\ Len(elements) = 3
    /\ Len(layers) = 2
    /\ \E e \in DOMAIN layers[2] : Len(layers[2][e]) = 2
    /\ \E e \in DOMAIN layers[1], f \in DOMAIN layers[1] : e \in Range(layers[1][f]) /\ f \notin Range(layers[1][e])

\* C18 (as claimed): on every layer graph the index can hold, from every entry
\* point of the layer and for every query and ef, ef = 0 included, the set
\* search_layer returns has at most ef elements.
C18_BeamAtMostEf ==
    panic = NoPanic =>
        \A lc \in 0..(Len(layers) - 1) : \A ep \in DOMAIN layers[lc + 1] :
            \A q \in HnswVectors, ef \in 0..MaxEf :
                \A w \in search_layer(layers, q, ep, ef, lc) : Cardinality(w) <= ef

\* C19 (as claimed): search_layer returns the ef closest of the nodes it
\* looked at: in every run, whatever the order the layer's entries come in, no
\* node whose distance to q was computed and which is not in the returned set
\* is strictly closer to q than a node of the returned set (ef >= 1).
C19_EfClosest ==
    panic = NoPanic =>
        \A lc \in 0..(Len(layers) - 1) : \A ep \in DOMAIN layers[lc + 1] :
            \A q \in HnswVectors, ef \in 1..MaxEf :
                \A r \in search_layer_run(layers, q, ep, ef, lc) :
                    \A x \in r.visited \ {y[2] : y \in r.w} : \A y \in r.w :
                        ~f64_lt(distance(Elem(x), q), y[1])

\* Layer lc before the step: a layer the step pushes was empty before.
LayerBefore(lc) == IF lc + 1 <= Len(layers) THEN layers[lc + 1] ELSE Layer_new

\* x ranked by (distance to e, id) over the vectors after the step.
RankTo(e, x) == PriorityNode(distance(elements'[x + 1], elements'[e + 1]), x)

\* C20: when an insert of id has updated layer L, every e in id's neighbour
\* list at L either lists id or has exactly m_max entries, the m_max closest
\* to e by (distance to e, id) among e's previous neighbours plus id; the
\* lists of the nodes id did not select are unchanged.
C20_ShrinkOrAppend ==
    [][(call'.op = "insert" /\ panic' = NoPanic /\ Len(elements') = Len(elements) + 1) =>
          LET id == Len(elements)
          IN  \A lc \in 0..(Len(layers') - 1) :
                id \in DOMAIN layers'[lc + 1] =>
                  LET before == LayerBefore(lc)
                      after == layers'[lc + 1]
                  IN  /\ \A e \in Range(after[id]) :
                           LET pool == Range(before[e]) \cup {id}
                           IN  \/ id \in Range(after[e])
                               \/ /\ Len(after[e]) = MMax(lc)
                                  /\ Range(after[e]) \subseteq pool
                                  /\ \A x \in Range(after[e]), y \in pool \ Range(after[e]) :
                                       pn_lt(RankTo(e, x), RankTo(e, y))
                      /\ \A e \in DOMAIN before \ Range(after[id]) : after[e] = before[e]]_vars

\* The third insert has replaced a neighbour of a full list of layer 0: e
\* lists the new id 2 and no longer lists f, which still lists e.
C20_Witness ==
    /\ call.op = "insert"
    /\ panic = NoPanic
    /\ Len(elements) = 3
    /\ \E e \in DOMAIN layers[1], f \in DOMAIN layers[1] :
         /\ e \in Range(layers[1][2])
         /\ 2 \in Range(layers[1][e])
         /\ e \in Range(layers[1][f])
         /\ f \notin Range(layers[1][e])

---------------------------------------------------------------------------
(* Hnsw::insert and Hnsw::knn_search as tasks (hnsw.rs).  A step runs from *)
(* one lock operation to the next: a task asks for a layer's lock and      *)
(* waits until the RwLock grants it, then works under the guard and drops  *)
(* it.  What a task does without a lock (reading enter_point,              *)
(* layers.len() and elements, writing enter_point and elements) is part    *)
(* of the step it precedes.  insert takes &mut self, so the borrow rules   *)
(* let no other call run while one insert runs; the tasks here interleave  *)
(* as far as the layers' locks alone allow.                                *)

\* tokio's RwLock: read() is granted while no task holds the write guard.
can_read(lc) == locks[lc + 1].w = {}

\* write() is granted while no task holds any guard of the layer.
can_write(lc) == locks[lc + 1].w = {} /\ locks[lc + 1].r = {}

\* Taking and dropping a guard of layer lc.
read_acquired(lks, lc, p) == [lks EXCEPT ![lc + 1].r = @ \cup {p}]

write_acquired(lks, lc, p) == [lks EXCEPT ![lc + 1].w = @ \cup {p}]

\* A guard that outlives its statement.
guard_kept(lks, lc, p) == lks

\* The guard of task p on layer lc goes out of scope.
guard_dropped(lks, lc, p) == [lks EXCEPT ![lc + 1].r = @ \ {p}, ![lc + 1].w = @ \ {p}]

\* The locks of the layers Hnsw::insert pushes: RwLock::new(Layer::new()).
push_locks(lks, level) ==
    IF level + 1 > Len(lks) THEN lks \o [l \in 1..(level + 1 - Len(lks)) |-> [r |-> {}, w |-> {}]] ELSE lks

\* The levels lo ..= hi in the order `for lc in lo..=hi` visits them.
range(lo, hi) == IF hi >= lo THEN [i \in 1..(hi - lo + 1) |-> lo + i - 1] ELSE <<>>

\* The levels lo ..= hi taken without .rev().
rev_range_fwd(lo, hi) == IF hi >= lo THEN [i \in 1..(hi - lo + 1) |-> lo + i - 1] ELSE <<>>

\* The levels lo ..= hi in the order `for lc in (lo..=hi).rev()` visits them.
rev_range(lo, hi) == IF hi >= lo THEN [i \in 1..(hi - lo + 1) |-> hi - i + 1] ELSE <<>>

\* One iteration of a loop of the insert, or one of its other steps.
Item(ph, lc) == [ph |-> ph, lc |-> lc]

Items(ph, lcs) == [i \in 1..Len(lcs) |-> Item(ph, lcs[i])]

\* insert_first_element and what Hnsw::insert does after it.
first_plan(level) == Items("first", range(0, level)) \o <<Item("ep", 0), Item("push", 0)>>

\* insert_element, its three loops, the enter point, debug_print_check over
\* nlayers layers, and what Hnsw::insert does after it.
element_plan(level, top_layer_level, nlayers) ==
    Items("descend", rev_range(level + 1, top_layer_level))
    \o Items("link", rev_range(0, Min2(top_layer_level, level)))
    \o Items("above", range(top_layer_level + 1, level))
    \o (IF level > top_layer_level THEN <<Item("ep", 0)>> ELSE <<>>)
    \o Items("check", range(0, nlayers - 1))
    \o <<Item("push", 0)>>

\* The top of the `while let Some(c) = candidates.pop_first()` loop of
\* search_layer: the next candidate is popped and the task asks for the read
\* lock, or the loop ends.
advance(t) ==
    IF t.cand = {} THEN [t EXCEPT !.pc = "sl_done"]
    ELSE LET c == pop_first(t.cand)
             rest == t.cand \ {c}
             f_dist == IF rest = {} THEN c[1] ELSE last(rest)[1]
         IN  IF f64_lt(f_dist, c[1])
             THEN [t EXCEPT !.pc = "sl_done", !.cand = rest, !.iters = @ + 1]
             ELSE [t EXCEPT !.pc = "r_lock", !.cand = rest, !.c = c, !.fd = f_dist, !.iters = @ + 1]

\* The head of search_layer(q, ep_id, ef, lc): the beam seeded with the entry
\* point, whose vector is read from elements, up to the first lock request.
begin_search(t, ep_id, ef, lc) ==
    LET ep_pr == PriorityNode(distance(Elem(ep_id), t.q), ep_id)
    IN  advance([t EXCEPT !.ep = ep_id, !.ef = ef, !.lc = lc, !.snap = {}, !.iters = 0,
                          !.cand = {ep_pr}, !.w = {ep_pr}, !.visited = {ep_id}])

\* The insert moves to the next entry of its plan, up to its first lock
\* request.
start_item(t) ==
    LET it == Head(t.plan)
    IN  CASE it.ph \in {"first", "above"} -> [t EXCEPT !.pc = "w_lock", !.lc = it.lc]
          [] it.ph = "descend" -> begin_search(t, t.ep, 1, it.lc)
          [] it.ph = "link" -> begin_search(t, t.ep, EFC, it.lc)
          [] it.ph = "ep" -> [t EXCEPT !.pc = "set_ep"]
          [] it.ph = "check" -> [t EXCEPT !.pc = "c_lock", !.lc = it.lc]
          [] it.ph = "push" -> [t EXCEPT !.pc = "push"]

next_item(t) == start_item([t EXCEPT !.plan = Tail(t.plan)])


\* Hnsw::insert(q) starts with the level drawn: the id, the new layers and
\* their locks, then insert_first_element or insert_element up to its first
\* lock request.
InsStart(q, level) ==
    LET t == procs[Inserter]
        id == Len(elements)
        nlayers == Len(layers)
        t1 == [NoProc EXCEPT !.q = q, !.id = id, !.level = level, !.nn = t.nn]
    IN  /\ panic = NoPanic
        /\ t.pc = "idle"
        /\ Len(elements) < MaxElems
        /\ layers' = push_layers(layers, level)
        /\ locks' = push_locks(locks, level)
        /\ procs' = [procs EXCEPT ![Inserter] =
                        IF enter_point # {}
                        THEN start_item([t1 EXCEPT !.ep = CHOOSE ep \in enter_point : TRUE,
                                                   !.plan = element_plan(level, nlayers - 1, Len(layers'))])
                        ELSE start_item([t1 EXCEPT !.plan = first_plan(level)])]
        /\ UNCHANGED <<dist, enter_point, elements, d, hist, call, result, panic>>

\* Hnsw::knn_search(q, k, ef) starts on task p: the enter point and
\* layers.len() are read and the first search_layer runs up to its first lock
\* request.  The enter point's vector is read from elements.
SrchStart(p, q, k, ef) ==
    LET t == [NoProc EXCEPT !.q = q, !.k = k, !.kef = ef]
        l == Len(layers)
    IN  /\ panic = NoPanic
        /\ procs[p].pc = "idle"
        /\ IF enter_point = {}
           THEN procs' = [procs EXCEPT ![p] = t] /\ UNCHANGED panic
           ELSE LET ep == CHOOSE e \in enter_point : TRUE
                IN  IF ep >= Len(elements)
                    THEN procs' = [procs EXCEPT ![p] = [t EXCEPT !.pc = "panicked"]]
                         /\ panic' = "index out of bounds"
                    ELSE procs' = [procs EXCEPT ![p] = begin_search(t, ep, IF l - 1 >= 1 THEN 1 ELSE ef, l - 1)]
                         /\ UNCHANGED panic
        /\ UNCHANGED <<dist, layers, enter_point, elements, d, hist, call, result, locks>>

\* self.layers[lc].read().await is granted: search_layer for its `for`
\* over the layer, debug_print_check for one layer.
AcquireRead(p) ==
    LET t == procs[p]
    IN  /\ panic = NoPanic
        /\ t.pc \in {"r_lock", "c_lock"}
        /\ can_read(t.lc)
        /\ locks' = read_acquired(locks, t.lc, p)
        /\ procs' = [procs EXCEPT ![p] = [t EXCEPT !.pc = IF t.pc = "r_lock" THEN "expand" ELSE "check",
                                                   !.acq = IF p = Inserter
                                                           THEN Append(t.acq, Item(Head(t.plan).ph, t.lc))
                                                           ELSE t.acq]]
        /\ UNCHANGED <<hvars>>

\* The `for` of search_layer for the candidate c under the read guard, which
\* is dropped at its end; then the loop's next turn.  The vectors of the
\* entries it visits are read from elements.
Expand(p) ==
    LET t == procs[p]
        layer == layers[t.lc + 1]
        U == {e_id \in DOMAIN layer : t.c[2] \in Range(layer[e_id]) /\ e_id \notin t.visited}
        noted == [t EXCEPT !.snap = {layer}, !.torn = t.torn \/ (t.snap # {} /\ t.snap # {layer})]
    IN  /\ panic = NoPanic
        /\ t.pc = "expand"
        /\ locks' = guard_dropped(locks, t.lc, p)
        /\ IF \E e_id \in U : e_id >= Len(elements)
           THEN procs' = [procs EXCEPT ![p] = [noted EXCEPT !.pc = "panicked"]]
                /\ panic' = "index out of bounds"
           ELSE /\ \E st \in expand(t.q, t.fd, t.ef, U, [candidates |-> t.cand, w |-> t.w]) :
                     procs' = [procs EXCEPT ![p] =
                                  advance([noted EXCEPT !.cand = st.candidates, !.w = st.w,
                                                        !.visited = visited_insert(t.visited, U)])]
                /\ UNCHANGED panic
        /\ UNCHANGED <<dist, layers, enter_point, elements, d, hist, call, result>>

\* A search_layer of knn_search has returned w: the next layer down is
\* searched from the closest node, or the search returns its k closest.
SrchLayerDone(p) ==
    LET t == procs[p]
    IN  /\ panic = NoPanic
        /\ p \in Searchers
        /\ t.pc = "sl_done"
        /\ IF t.lc >= 1
           THEN IF t.w = {}
                THEN procs' = [procs EXCEPT ![p] = [t EXCEPT !.pc = "panicked"]] /\ panic' = "unreachable"
                ELSE procs' = [procs EXCEPT ![p] =
                                  begin_search(t, first(t.w)[2], IF t.lc - 1 >= 1 THEN 1 ELSE t.kef, t.lc - 1)]
                     /\ UNCHANGED panic
           ELSE procs' = [procs EXCEPT ![p] = [NoProc EXCEPT !.nn = take(into_iter(t.w), t.k)]]
                /\ UNCHANGED panic
        /\ UNCHANGED <<dist, layers, enter_point, elements, d, hist, call, result, locks>>

\* A search_layer of insert_element has returned w: the first loop moves the
\* entry point, the second selects the neighbours and asks for the write lock.
InsLayerDone ==
    LET t == procs[Inserter]
        it == Head(t.plan)
    IN  /\ panic = NoPanic
        /\ t.pc = "sl_done"
        /\ procs' = [procs EXCEPT ![Inserter] =
                        IF it.ph = "descend"
                        THEN next_item([t EXCEPT !.ep = IF t.w = {} THEN t.ep ELSE first(t.w)[2]])
                        ELSE [t EXCEPT !.pc = "w_lock",
                                       !.neighbors = select_neighbors_simple(t.w, IF t.lc = 0 THEN M0 ELSE M, <<>>)]]
        /\ UNCHANGED <<hvars, locks>>

\* self.layers[lc].write().await is granted to the insert.
AcquireWrite ==
    LET t == procs[Inserter]
    IN  /\ panic = NoPanic
        /\ t.pc = "w_lock"
        /\ can_write(t.lc)
        /\ locks' = write_acquired(locks, t.lc, Inserter)
        /\ procs' = [procs EXCEPT ![Inserter] = [t EXCEPT !.pc = "write",
                                                          !.acq = Append(t.acq, Item(Head(t.plan).ph, t.lc))]]
        /\ UNCHANGED <<hvars>>

\* What the insert does to layer lc under the write guard, which is dropped
\* at the end: the node with no neighbours (insert_first_element, third loop
\* of insert_element), or the node with its neighbours and their back links
\* (second loop).
InsWrite ==
    LET t == procs[Inserter]
        it == Head(t.plan)
        layer == layers[t.lc + 1]
        c == connect(layer_insert(layer, t.id, t.neighbors), t.neighbors, t.id, t.q, IF t.lc = 0 THEN M0 ELSE M)
        fail == CASE it.ph = "above" /\ t.id \in DOMAIN layer -> "unreachable: Already there"
                  [] it.ph = "link" /\ c.panic # NoPanic -> c.panic
                  [] it.ph = "link" /\ t.w = {} -> "unreachable: W is empty"
                  [] OTHER -> NoPanic
        written == IF it.ph = "link" THEN c.layer ELSE layer_insert(layer, t.id, <<>>)
    IN  /\ panic = NoPanic
        /\ t.pc = "write"
        /\ locks' = guard_dropped(locks, t.lc, Inserter)
        /\ layers' = [layers EXCEPT ![t.lc + 1] = written]
        /\ panic' = fail
        /\ procs' = [procs EXCEPT ![Inserter] =
                        IF fail # NoPanic THEN [t EXCEPT !.pc = "panicked"]
                        ELSE IF it.ph = "link" THEN next_item([t EXCEPT !.ep = first(t.w)[2]])
                        ELSE next_item(t)]
        /\ UNCHANGED <<dist, enter_point, elements, d, hist, call, result>>

\* self.enter_point = Some(id).
InsEnterPoint ==
    LET t == procs[Inserter]
    IN  /\ panic = NoPanic
        /\ t.pc = "set_ep"
        /\ enter_point' = {t.id}
        /\ procs' = [procs EXCEPT ![Inserter] = next_item(t)]
        /\ UNCHANGED <<dist, layers, elements, d, hist, call, result, panic, locks>>

\* debug_print_check on layer lc under the read guard, dropped at the end.
InsCheck ==
    LET t == procs[Inserter]
        ok == \A e \in DOMAIN layers[t.lc + 1] : Len(layers[t.lc + 1][e]) <= (IF t.lc = 0 THEN M0 ELSE M)
    IN  /\ panic = NoPanic
        /\ t.pc = "check"
        /\ locks' = guard_dropped(locks, t.lc, Inserter)
        /\ panic' = IF ok THEN NoPanic ELSE "assertion failed: f.len() <= m_max"
        /\ procs' = [procs EXCEPT ![Inserter] = IF ok THEN next_item(t) ELSE [t EXCEPT !.pc = "panicked"]]
        /\ UNCHANGED <<dist, layers, enter_point, elements, d, hist, call, result>>

\* self.elements.push(q): the insert returns id.
InsPush ==
    LET t == procs[Inserter]
    IN  /\ panic = NoPanic
        /\ t.pc = "push"
        /\ elements' = Append(elements, t.q)
        /\ hist' = Append(hist, [q |-> t.q, doc |-> 0, level |-> t.level, id |-> t.id])
        /\ procs' = [procs EXCEPT ![Inserter] = [t EXCEPT !.pc = "idle", !.plan = <<>>]]
        /\ UNCHANGED <<dist, layers, enter_point, d, call, result, panic, locks>>

\* The ef values of the searching tasks.
LockEfs == {1, MaxEf}

\* Hnsw::new(None, Distance::Manhattan) and idle tasks.
LockInit ==
    /\ HInit
    /\ dist = Selector("Manhattan", 0)
    /\ NoTasks
    /\ va = TreeVector("I16", <<>>)
    /\ vb = TreeVector("I16", <<>>)
    /\ vout = NoOut

LockNext ==
    \/ \E q \in HnswVectors, level \in get_random_level : InsStart(q, level) /\ UNCHANGED vvars
    \/ \E p \in Searchers, q \in HnswVectors, ef \in LockEfs : SrchStart(p, q, MaxK, ef) /\ UNCHANGED vvars
    \/ \E p \in Procs : AcquireRead(p) /\ UNCHANGED vvars
    \/ \E p \in Procs : Expand(p) /\ UNCHANGED vvars
    \/ \E p \in Searchers : SrchLayerDone(p) /\ UNCHANGED vvars
    \/ InsLayerDone /\ UNCHANGED vvars
    \/ AcquireWrite /\ UNCHANGED vvars
    \/ InsWrite /\ UNCHANGED vvars
    \/ InsEnterPoint /\ UNCHANGED vvars
    \/ InsCheck /\ UNCHANGED vvars
    \/ InsPush /\ UNCHANGED vvars

LockSpec == LockInit /\ [][LockNext]_vars


\* The locks the running insert has taken so far, in order.
InsAcq == procs[Inserter].acq

\* The layers whose lock task p holds a guard of.
Held(p) == {lc \in 0..(Len(locks) - 1) : p \in locks[lc + 1].r \cup locks[lc + 1].w}

Runnable(p) ==
    \/ procs[p].pc \in {"expand", "check", "write", "sl_done", "set_ep", "push"}
    \/ procs[p].pc \in {"r_lock", "c_lock"} /\ can_read(procs[p].lc)
    \/ procs[p].pc = "w_lock" /\ can_write(procs[p].lc)

\* C14: an insert or a search holds at most one layer lock at any point and
\* holds none when it asks for one, and the tasks never deadlock on the locks:
\* a task that waits for a lock waits for a task that can take a step.
C14_OneLockNoDeadlock ==
    /\ \A p \in Procs : Cardinality(Held(p)) <= 1
    /\ \A p \in Procs : procs[p].pc \in {"r_lock", "c_lock", "w_lock"} => Held(p) = {}
    /\ panic = NoPanic =>
          \A p \in Procs :
              procs[p].pc \notin {"idle", "panicked"} =>
                  \/ Runnable(p)
                  \/ \E p2 \in Procs \ {p} : procs[p].lc \in Held(p2) /\ Runnable(p2)

\* The insert waits for the write lock of a layer a search holds for reading.
C14_Witness ==
    /\ panic = NoPanic
    /\ procs[Inserter].pc = "w_lock"
    /\ \E p \in Searchers : procs[p].pc = "expand" /\ Held(p) = {procs[Inserter].lc}
    /\ ~Runnable(Inserter)

\* C15 (as claimed): within one search_layer call the read lock of the layer
\* is held from the first candidate's expansion to the last, and no writer
\* changes the layer between the expansions of two successive candidates.
C15_ReadLockHeld ==
    \A p \in Procs :
        /\ (procs[p].pc = "r_lock" /\ procs[p].snap # {}) => procs[p].lc \in Held(p)
        /\ ~procs[p].torn

\* The ids that are a key or a neighbour in a layer, or the enter point.
VisibleIds ==
    enter_point
    \cup UNION {DOMAIN layers[i] : i \in 1..Len(layers)}
    \cup UNION {UNION {Range(layers[i][e]) : e \in DOMAIN layers[i]} : i \in 1..Len(layers)}

\* C16 (as claimed): a search interleaved with an insert never indexes
\* elements with an id not yet appended: an id that is a key or a neighbour in
\* a layer, or the enter point, has its vector in elements.
C16_ElementWritten ==
    /\ panic # "index out of bounds"
    /\ \A id \in VisibleIds : id < Len(elements)

\* C21: every index a (non-concurrent) insert reads elements at, in the
\* descent, in search_layer on each layer and in
\* select_and_shrink_neighbors_simple, is below the id the insert assigns, so
\* elements is never read out of bounds before q is appended.
C21_ReadsBelowId ==
    \A q \in HnswVectors, level \in get_random_level :
        \A reads \in Hnsw_insert_reads(q, level) : \A e \in reads : e < Len(elements)

\* After two inserts that built two layers, an insert below the top layer
\* reads every element there is, shrinking a full neighbour list on layer 0.
C21_Witness ==
    /\ call.op = "insert"
    /\ Len(elements) >= 2
    /\ Len(layers) = 2
    /\ \E e \in DOMAIN layers[1] : Len(layers[1][e]) >= M0
    /\ \E q \in HnswVectors : (0..(Len(elements) - 1)) \in Hnsw_insert_reads(q, 0)

RECURSIVE Reach(_, _)
\* The ids reachable from the ids S along the neighbour lists of layer.
Reach(layer, S) ==
    LET T == S \cup {b \in DOMAIN layer : \E a \in S \cap DOMAIN layer : b \in Range(layer[a])}
    IN  IF T = S THEN S ELSE Reach(layer, T)

\* All elements sorted ascending by (distance to q, element id).
BruteForce(q) == into_iter({PriorityNode(distance(Elem(id), q), id) : id \in 0..(Len(elements) - 1)})

\* C22: with at most M0 + 1 vectors inserted, whatever levels were drawn,
\* layer 0 is symmetric and connected, and for every query q, every k and
\* every ef at least the number of vectors, knn_search(q, k, ef) returns the
\* first min(k, N) entries of the brute-force list sorted by (distance, id).
C22_BruteForce ==
    (Len(elements) >= 1 /\ Len(elements) <= M0 + 1) =>
        /\ DOMAIN layers[1] = 0..(Len(elements) - 1)
        /\ \A a \in DOMAIN layers[1], b \in DOMAIN layers[1] :
               b \in Range(layers[1][a]) <=> a \in Range(layers[1][b])
        /\ Reach(layers[1], {0}) = 0..(Len(elements) - 1)
        /\ \A q \in HnswVectors, k \in 0..MaxK, ef \in Len(elements)..MaxEf :
               \A r \in knn_search(q, k, ef) :
                   r.panic = NoPanic /\ r.nn = take(BruteForce(q), k)

\* A search with ef = N on M0 + 1 vectors over two layers, entered at the
\* vector farther from q, has returned the brute-force list.
C22_Witness ==
    /\ Len(elements) = M0 + 1
    /\ Len(layers) = 2
    /\ call.op = "search"
    /\ call.ef = Len(elements)
    /\ call.k = MaxK
    /\ result.nn = take(BruteForce(call.q), call.k)
    /\ \E ep \in enter_point : result.nn[1][2] # ep /\ f64_lt(result.nn[1][1], distance(Elem(ep), call.q))

\* C23: in search_layer the early-stop test c.dist > f_dist is never true:
\* from any entry point of any layer, for any query and ef, no run stops at
\* the break, so the loop ends with candidates empty and every node admitted
\* to candidates has been expanded.
C23_NoEarlyStop ==
    panic = NoPanic =>
        \A lc \in 0..(Len(layers) - 1) : \A ep \in DOMAIN layers[lc + 1] :
            \A q \in HnswVectors, ef \in 0..MaxEf :
                \A r \in search_layer_run(layers, q, ep, ef, lc) : r.unexpanded = {}

\* A search has run on a layer 0 where some search_layer run computes three
\* pairwise different distances, so candidates held nodes farther than c.
C23_Witness ==
    /\ call.op = "search"
    /\ panic = NoPanic
    /\ Len(elements) = 3
    /\ \E r \in search_layer_run(layers, call.q, CHOOSE ep \in enter_point : TRUE, MaxEf, 0) :
         /\ r.unexpanded = {}
         /\ Cardinality(r.w) = 3
         /\ Cardinality({y[1] : y \in r.w}) = 3

---------------------------------------------------------------------------
(* Calls on a quiescent index: the same steps, a call starting only when   *)
(* no other call runs, and every running task scheduled again and again.   *)

\* The steps task p takes once its call has started.
Step(p) ==
    \/ AcquireRead(p) /\ UNCHANGED vvars
    \/ Expand(p) /\ UNCHANGED vvars
    \/ p \in Searchers /\ SrchLayerDone(p) /\ UNCHANGED vvars
    \/ p = Inserter /\ InsLayerDone /\ UNCHANGED vvars
    \/ p = Inserter /\ AcquireWrite /\ UNCHANGED vvars
    \/ p = Inserter /\ InsWrite /\ UNCHANGED vvars
    \/ p = Inserter /\ InsEnterPoint /\ UNCHANGED vvars
    \/ p = Inserter /\ InsCheck /\ UNCHANGED vvars
    \/ p = Inserter /\ InsPush /\ UNCHANGED vvars

\* No call is running.
Quiescent == \A p \in Procs : procs[p].pc = "idle"

QuietNext ==
    \/ \E q \in HnswVectors, level \in get_random_level : Quiescent /\ InsStart(q, level) /\ UNCHANGED vvars
    \/ \E p \in Searchers, q \in HnswVectors, ef \in LockEfs : Quiescent /\ SrchStart(p, q, MaxK, ef) /\ UNCHANGED vvars
    \/ \E p \in Procs : Step(p)

QuietSpec == LockInit /\ [][QuietNext]_vars /\ \A p \in Procs : WF_vars(Step(p))

\* Task p is inside the while loop of search_layer.
InSearchLayer(p) == procs[p].pc \in {"r_lock", "expand", "sl_done"}

\* C24: search_layer terminates on every layer graph, cycles and one-way
\* links included: its loop runs at most as many iterations as the layer has
\* nodes plus one, every candidate being a visited node, and every knn_search
\* and every insert started on a quiescent index eventually completes: again
\* and again no call is running.
C24_Terminates ==
    /\ [](\A p \in Procs :
            InSearchLayer(p) =>
                /\ procs[p].iters <= Cardinality(DOMAIN layers[procs[p].lc + 1]) + 1
                /\ {x[2] : x \in procs[p].cand} \subseteq procs[p].visited)
    /\ []<>Quiescent

\* A search_layer of a search has ended on a layer 0 of three nodes with a
\* mutual link and a one-way link, after one iteration per node.
C24_Witness ==
    \E p \in Searchers :
        /\ procs[p].pc = "sl_done"
        /\ procs[p].lc = 0
        /\ procs[p].iters = 3
        /\ Cardinality(DOMAIN layers[1]) = 3
        /\ \E a \in DOMAIN layers[1], b \in DOMAIN layers[1] :
             a \in Range(layers[1][b]) /\ b \in Range(layers[1][a])
        /\ \E a \in DOMAIN layers[1], b \in DOMAIN layers[1] :
             a \in Range(layers[1][b]) /\ b \notin Range(layers[1][a])

===========================================================================
